---- MODULE Spec2Model ----
(***************************************************************************)
(* Model of the taxi fare calculator (golang-taxi-fare): the exact-decimal *)
(* arithmetic the fare engine relies on, the tiered fare computation, the  *)
(* sequence validator, the line parser and the streaming pipeline of       *)
(* Application.Run.                                                        *)
(***************************************************************************)
EXTENDS Integers, Sequences, FiniteSets, TLC

(***************************************************************************)
(* Decimal values.  shopspring/decimal keeps value * 10^exp with an        *)
(* arbitrary-precision integer value.  A value is modelled as a sign, the  *)
(* integer part and the sequence of its fractional digits, so that         *)
(* exp = -Len(frac) and no digit is ever lost to a machine word.           *)
(***************************************************************************)
\* F applied to the value of x: the operand is computed once and passed by value
Let(x, F(_)) == CHOOSE r \in {F(v) : v \in {x}} : TRUE

Dec(n, i, f) == [neg |-> n, int |-> i, frac |-> f]

NewFromInt(n) == IF n < 0 THEN Dec(TRUE, 0 - n, <<>>) ELSE Dec(FALSE, n, <<>>)

Zero == NewFromInt(0)

FracIsZero(f) == \A k \in 1..Len(f) : f[k] = 0

IsZero(d) == d.int = 0 /\ FracIsZero(d.frac)

IsNegative(d) == d.neg /\ ~IsZero(d)

Sign(d) == IF IsZero(d) THEN 0 ELSE IF d.neg THEN 0 - 1 ELSE 1

Max2(a, b) == IF a >= b THEN a ELSE b

PadRight(f, n) == [k \in 1..n |-> IF k <= Len(f) THEN f[k] ELSE 0]

RECURSIVE CmpDigits(_, _, _)
CmpDigits(fa, fb, k) ==
    IF k > Len(fa) THEN 0
    ELSE IF fa[k] < fb[k] THEN 0 - 1
    ELSE IF fa[k] > fb[k] THEN 1
    ELSE CmpDigits(fa, fb, k + 1)

\* comparison of the magnitudes, after aligning the exponents
CmpAbs(a, b) ==
    IF a.int < b.int THEN 0 - 1
    ELSE IF a.int > b.int THEN 1
    ELSE LET n == Max2(Len(a.frac), Len(b.frac))
         IN  CmpDigits(PadRight(a.frac, n), PadRight(b.frac, n), 1)

Cmp(a, b) ==
    IF Sign(a) # Sign(b) THEN (IF Sign(a) < Sign(b) THEN 0 - 1 ELSE 1)
    ELSE IF Sign(a) >= 0 THEN CmpAbs(a, b)
    ELSE CmpAbs(b, a)

Equal(a, b) == Cmp(a, b) = 0

GreaterThan(a, b) == Cmp(a, b) = 1

LessThan(a, b) == Cmp(a, b) = 0 - 1

LessThanOrEqual(a, b) == Cmp(a, b) <= 0

\* digit-wise addition from the least significant digit, with carry
RECURSIVE AddDigits(_, _, _)
AddDigits(fa, fb, c) ==
    IF fa = <<>> THEN [digits |-> <<>>, carry |-> c]
    ELSE LET n == Len(fa)
         IN  Let(fa[n] + fb[n] + c, LAMBDA t :
                 Let(AddDigits(SubSeq(fa, 1, n - 1), SubSeq(fb, 1, n - 1), t \div 10),
                     LAMBDA rest : [digits |-> Append(rest.digits, t % 10),
                                    carry |-> rest.carry]))

\* digit-wise subtraction from the least significant digit, with borrow
RECURSIVE SubDigits(_, _, _)
SubDigits(fa, fb, b) ==
    IF fa = <<>> THEN [digits |-> <<>>, borrow |-> b]
    ELSE LET n == Len(fa)
         IN  Let(fa[n] - fb[n] - b, LAMBDA t :
                 Let(SubDigits(SubSeq(fa, 1, n - 1), SubSeq(fb, 1, n - 1),
                               IF t < 0 THEN 1 ELSE 0),
                     LAMBDA rest : [digits |-> Append(rest.digits,
                                                      IF t < 0 THEN t + 10 ELSE t),
                                    borrow |-> rest.borrow]))

\* |a| + |b|
AddAbs(a, b) ==
    LET n == Max2(Len(a.frac), Len(b.frac))
    IN  Let(AddDigits(PadRight(a.frac, n), PadRight(b.frac, n), 0),
            LAMBDA s : Dec(FALSE, a.int + b.int + s.carry, s.digits))

\* |a| - |b|, for |a| >= |b|
SubAbs(a, b) ==
    LET n == Max2(Len(a.frac), Len(b.frac))
    IN  Let(SubDigits(PadRight(a.frac, n), PadRight(b.frac, n), 0),
            LAMBDA s : Dec(FALSE, a.int - b.int - s.borrow, s.digits))

WithSign(neg, d) == Dec(neg /\ ~IsZero(d), d.int, d.frac)

Neg(d) == WithSign(~d.neg, d)

AddValues(a, b) ==
    IF a.neg = b.neg THEN Let(AddAbs(a, b), LAMBDA m : WithSign(a.neg, m))
    ELSE IF CmpAbs(a, b) >= 0 THEN Let(SubAbs(a, b), LAMBDA m : WithSign(a.neg, m))
    ELSE Let(SubAbs(b, a), LAMBDA m : WithSign(b.neg, m))

Add(a, b) == Let(a, LAMBDA x : Let(b, LAMBDA y : AddValues(x, y)))

Sub(a, b) == Add(a, Neg(b))

\* product of two values of exponent 0 (the only products the program forms:
\* a Ceil result times a rate)
Mul(a, b) == WithSign(a.neg # b.neg, Dec(FALSE, a.int * b.int, <<>>))

\* decimal.DivisionPrecision: digits kept after the point by Div
DivisionPrecision == 16

\* long division of the fractional digits by the integer m, r the running
\* remainder, producing the quotient digits k..DivisionPrecision
RECURSIVE LongDiv(_, _, _, _)
LongDiv(f, m, r, k) ==
    IF k > DivisionPrecision THEN [digits |-> <<>>, rem |-> r]
    ELSE Let(r * 10 + (IF k <= Len(f) THEN f[k] ELSE 0), LAMBDA cur :
             Let(LongDiv(f, m, cur % m, k + 1),
                 LAMBDA rest : [digits |-> <<cur \div m>> \o rest.digits,
                                rem |-> rest.rem]))

\* QuoRem(d, d2, DivisionPrecision) on the magnitudes, d2 of exponent 0:
\* the quotient truncated to DivisionPrecision digits, and the remainder
\* counted in units of 10^-DivisionPrecision
QuoRem(d, d2) ==
    LET m == d2.int
        tail == IF Len(d.frac) > DivisionPrecision
                THEN SubSeq(d.frac, DivisionPrecision + 1, Len(d.frac))
                ELSE <<>>
    IN  Let(LongDiv(d.frac, m, d.int % m, 1),
            LAMBDA ld : [q |-> Dec(FALSE, d.int \div m, ld.digits),
                         r |-> Dec(FALSE, ld.rem, tail)])

\* one unit in the last kept place, 10^-DivisionPrecision
Ulp == Dec(FALSE, 0, [k \in 1..DivisionPrecision |-> IF k = DivisionPrecision THEN 1 ELSE 0])

\* Div = DivRound(d2, DivisionPrecision): the truncated quotient, moved one
\* unit away from zero when twice the remainder reaches the divisor
DivRound(d, d2, qr) ==
    LET neg == d.neg # d2.neg
    IN  IF CmpAbs(AddAbs(qr.r, qr.r), Dec(FALSE, d2.int, <<>>)) < 0
        THEN WithSign(neg, qr.q)
        ELSE Let(AddAbs(qr.q, Ulp), LAMBDA up : WithSign(neg, up))

Div(d, d2) == Let(d, LAMBDA x : Let(QuoRem(x, d2), LAMBDA qr : DivRound(x, d2, qr)))

\* Ceil: Euclidean division of value by 10^-exp, plus one when the modulus
\* is not zero
Ceil(d) ==
    IF d.frac = <<>> THEN d
    ELSE IF FracIsZero(d.frac) THEN WithSign(d.neg, Dec(FALSE, d.int, <<>>))
    ELSE IF d.neg THEN WithSign(TRUE, Dec(FALSE, d.int, <<>>))
    ELSE Dec(FALSE, d.int + 1, <<>>)

(***************************************************************************)
(* Fare engine (farecalculator/calculator.go)                              *)
(***************************************************************************)
BaseFare == NewFromInt(400)

BaseDistance == NewFromInt(1000)

StandardRate == NewFromInt(40)

StandardUnit == NewFromInt(400)

StandardThreshold == NewFromInt(10000)

ExtendedRate == NewFromInt(40)

ExtendedUnit == NewFromInt(350)

FareBreakdown(d, b, s, e, t) ==
    [Distance |-> d, BaseFareAmount |-> b, StandardFareAmount |-> s,
     ExtendedFareAmount |-> e, TotalFare |-> t]

\* a fare engine that drops the standard tier once the extended tier applies
StandardFareDropped(remainingDistance) ==
    IF GreaterThan(remainingDistance, Sub(StandardThreshold, BaseDistance))
    THEN Zero
    ELSE Mul(Ceil(Div(remainingDistance, StandardUnit)), StandardRate)

\* a fare engine that charges half the rate per standard unit
StandardFareHalfRate(remainingDistance) ==
    LET standardDistance ==
            IF GreaterThan(remainingDistance, Sub(StandardThreshold, BaseDistance))
            THEN Sub(StandardThreshold, BaseDistance)
            ELSE remainingDistance
    IN  IF GreaterThan(standardDistance, Zero)
        THEN Let(Div(standardDistance, StandardUnit),
                 LAMBDA units : Mul(Ceil(units), NewFromInt(20)))
        ELSE Zero

StandardFare(remainingDistance) ==
    LET standardDistance ==
            IF GreaterThan(remainingDistance, Sub(StandardThreshold, BaseDistance))
            THEN Sub(StandardThreshold, BaseDistance)
            ELSE remainingDistance
    IN  IF GreaterThan(standardDistance, Zero)
        THEN Let(Div(standardDistance, StandardUnit),
                 LAMBDA units : Mul(Ceil(units), StandardRate))
        ELSE Zero

ExtendedFare(remainingDistance) ==
    IF GreaterThan(remainingDistance, Sub(StandardThreshold, BaseDistance))
    THEN LET extendedDistance == Sub(remainingDistance, Sub(StandardThreshold, BaseDistance))
         IN  IF GreaterThan(extendedDistance, Zero)
             THEN Let(Div(extendedDistance, ExtendedUnit),
                      LAMBDA units : Mul(Ceil(units), ExtendedRate))
             ELSE Zero
    ELSE Zero

\* a fare engine whose total leaves the extended tier out
TieredFareWithoutExtended(distanceMeters, remainingDistance) ==
    Let(StandardFare(remainingDistance), LAMBDA standardFareAmount :
        Let(ExtendedFare(remainingDistance), LAMBDA extendedFareAmount :
            FareBreakdown(distanceMeters, BaseFare, standardFareAmount, extendedFareAmount,
                          Add(BaseFare, standardFareAmount))))

\* the tiers above the base distance, by the distance beyond it
TieredFare(distanceMeters, remainingDistance) ==
    Let(StandardFare(remainingDistance), LAMBDA standardFareAmount :
        Let(ExtendedFare(remainingDistance), LAMBDA extendedFareAmount :
            FareBreakdown(distanceMeters, BaseFare, standardFareAmount, extendedFareAmount,
                          Add(Add(BaseFare, standardFareAmount), extendedFareAmount))))

\* a fare engine that only takes the distance 0 for free
CalculateFareUnclamped(distanceMeters) ==
    IF IsZero(distanceMeters)
    THEN FareBreakdown(distanceMeters, Zero, Zero, Zero, Zero)
    ELSE IF LessThanOrEqual(distanceMeters, BaseDistance)
    THEN FareBreakdown(distanceMeters, BaseFare, Zero, Zero, BaseFare)
    ELSE Let(Sub(distanceMeters, BaseDistance),
             LAMBDA remainingDistance : TieredFare(distanceMeters, remainingDistance))

\* a fare engine that charges nothing below the base distance
CalculateFareFromBaseDistance(distanceMeters) ==
    IF LessThan(distanceMeters, BaseDistance)
    THEN FareBreakdown(distanceMeters, Zero, Zero, Zero, Zero)
    ELSE Let(Sub(distanceMeters, BaseDistance),
             LAMBDA remainingDistance : TieredFare(distanceMeters, remainingDistance))

CalculateFare(distanceMeters) ==
    IF IsNegative(distanceMeters) \/ IsZero(distanceMeters)
    THEN FareBreakdown(distanceMeters, Zero, Zero, Zero, Zero)
    ELSE IF LessThanOrEqual(distanceMeters, BaseDistance)
    THEN FareBreakdown(distanceMeters, BaseFare, Zero, Zero,
                       Add(Add(BaseFare, Zero), Zero))
    ELSE Let(Sub(distanceMeters, BaseDistance),
             LAMBDA remainingDistance : TieredFare(distanceMeters, remainingDistance))

\* CalculateFromRecords: the loop over records[1:], keeping the largest
RECURSIVE MaxDistance(_, _, _)
MaxDistance(records, i, best) ==
    IF i > Len(records) THEN best
    ELSE Let(IF GreaterThan(records[i].Distance, best) THEN records[i].Distance ELSE best,
             LAMBDA next : MaxDistance(records, i + 1, next))

\* and the smallest distance
RECURSIVE MinDistance(_, _, _)
MinDistance(records, i, best) ==
    IF i > Len(records) THEN best
    ELSE Let(IF LessThan(records[i].Distance, best) THEN records[i].Distance ELSE best,
             LAMBDA next : MinDistance(records, i + 1, next))

FareCalculation(b, d, t, total) ==
    [BaseFare |-> b, DistanceFare |-> d, TimeFare |-> t, TotalFare |-> total]

\* the mapping of a FareBreakdown to a FareCalculation
FromBreakdown(fareBreakdown) ==
    FareCalculation(fareBreakdown.BaseFareAmount,
                    Add(fareBreakdown.StandardFareAmount, fareBreakdown.ExtendedFareAmount),
                    Zero, fareBreakdown.TotalFare)

\* a reduction that takes the last reading minus the first
CalculateFromRecordsFirstToLast(records) ==
    IF Len(records) = 0 THEN FareCalculation(Zero, Zero, Zero, Zero)
    ELSE Let(Sub(records[Len(records)].Distance, records[1].Distance),
             LAMBDA travelDistance : Let(CalculateFare(travelDistance), FromBreakdown))

CalculateFromRecords(records) ==
    IF Len(records) = 0 THEN FareCalculation(Zero, Zero, Zero, Zero)
    ELSE Let(Sub(MaxDistance(records, 2, records[1].Distance),
                 MinDistance(records, 2, records[1].Distance)),
             LAMBDA travelDistance : Let(CalculateFare(travelDistance), FromBreakdown))

(***************************************************************************)
(* Records and errors.  A timestamp is the zero time.Time or a time of day *)
(* in milliseconds on the date time.Parse gives a layout without a date.   *)
(* An error value is a record; Nil is the nil error.                       *)
(***************************************************************************)
Time(ms) == [zero |-> FALSE, ms |-> ms]

ZeroTime == [zero |-> TRUE, ms |-> 0]

DistanceRecord(t, d) == [Timestamp |-> t, Distance |-> d]

EmptyRecord == DistanceRecord(ZeroTime, Zero)

Nil == [kind |-> "nil"]

ParsingError(type, line) == [kind |-> "ParsingError", Type |-> type, Line |-> line]

ValidationError(type, index, field) ==
    [kind |-> "ValidationError", Type |-> type, RecordIndex |-> index, Field |-> field]

ContextCanceled == [kind |-> "context.Canceled"]

InsufficientData == [kind |-> "errors.New", Message |-> "insufficient data"]

(***************************************************************************)
(* Sequence validator (datavalidator/validator.go)                         *)
(***************************************************************************)
NewValidator ==
    [MaxInterval |-> 5 * 60 * 1000,
     AllowIdenticalTimestamps |-> TRUE,
     AllowIdenticalMileage |-> TRUE]

NewValidatorWithOptions(maxInterval, allowIdenticalTimestamps, allowIdenticalMileage) ==
    [MaxInterval |-> maxInterval,
     AllowIdenticalTimestamps |-> allowIdenticalTimestamps,
     AllowIdenticalMileage |-> allowIdenticalMileage]

\* a validator that looks at the distance before the timestamp
ValidateRecordDistanceFirst(record) ==
    IF IsNegative(record.Distance) THEN ValidationError("constraint", 0, "distance")
    ELSE IF record.Timestamp.zero THEN ValidationError("format", 0, "timestamp")
    ELSE Nil

ValidateRecord(record) ==
    IF record.Timestamp.zero THEN ValidationError("format", 0, "timestamp")
    ELSE IF IsNegative(record.Distance) THEN ValidationError("constraint", 0, "distance")
    ELSE Nil

\* Timestamp.Sub, in milliseconds
TimeSub(t, u) == t.ms - u.ms

\* a timing check that forgets the maximum interval
validateTimingConstraintsNoInterval(dv, previous, current, currentIndex) ==
    LET timeDiff == TimeSub(current.Timestamp, previous.Timestamp)
    IN  IF timeDiff < 0 THEN ValidationError("timing", currentIndex, "timestamp")
        ELSE IF timeDiff = 0 /\ ~dv.AllowIdenticalTimestamps
             THEN ValidationError("timing", currentIndex, "timestamp")
        ELSE Nil

\* a timing check whose maximum interval is exclusive
validateTimingConstraintsExclusive(dv, previous, current, currentIndex) ==
    LET timeDiff == TimeSub(current.Timestamp, previous.Timestamp)
    IN  IF timeDiff < 0 THEN ValidationError("timing", currentIndex, "timestamp")
        ELSE IF timeDiff = 0 /\ ~dv.AllowIdenticalTimestamps
             THEN ValidationError("timing", currentIndex, "timestamp")
        ELSE IF timeDiff >= dv.MaxInterval
             THEN ValidationError("timing", currentIndex, "timestamp")
        ELSE Nil

validateTimingConstraints(dv, previous, current, currentIndex) ==
    LET timeDiff == TimeSub(current.Timestamp, previous.Timestamp)
    IN  IF timeDiff < 0 THEN ValidationError("timing", currentIndex, "timestamp")
        ELSE IF timeDiff = 0 /\ ~dv.AllowIdenticalTimestamps
             THEN ValidationError("timing", currentIndex, "timestamp")
        ELSE IF timeDiff > dv.MaxInterval
             THEN ValidationError("timing", currentIndex, "timestamp")
        ELSE Nil

\* a mileage check that only looks for identical readings
validateMileageProgressionIdenticalOnly(dv, previous, current, currentIndex) ==
    LET mileageDiff == Sub(current.Distance, previous.Distance)
    IN  IF IsZero(mileageDiff) /\ ~dv.AllowIdenticalMileage
        THEN ValidationError("mileage", currentIndex, "distance")
        ELSE Nil

\* a validator without a mileage check
validateMileageProgressionNone(dv, previous, current, currentIndex) == Nil

validateMileageProgression(dv, previous, current, currentIndex) ==
    LET mileageDiff == Sub(current.Distance, previous.Distance)
    IN  IF IsNegative(mileageDiff) THEN ValidationError("mileage", currentIndex, "distance")
        ELSE IF IsZero(mileageDiff) /\ ~dv.AllowIdenticalMileage
             THEN ValidationError("mileage", currentIndex, "distance")
        ELSE Nil

\* the first loop of ValidateSequence: every record on its own, the error
\* re-indexed to the record's (0-based) position; i is the 1-based position
RECURSIVE ValidateEach(_, _)
ValidateEach(records, i) ==
    IF i > Len(records) THEN Nil
    ELSE LET err == ValidateRecord(records[i])
         IN  IF err # Nil THEN [err EXCEPT !.RecordIndex = i - 1]
             ELSE ValidateEach(records, i + 1)

\* a second loop that indexes the previous record of the pair
RECURSIVE ValidatePairsIndexPrevious(_, _, _)
ValidatePairsIndexPrevious(dv, records, i) ==
    IF i >= Len(records) THEN Nil
    ELSE LET current == records[i + 1]
             previous == records[i]
             terr == validateTimingConstraints(dv, previous, current, i - 1)
             merr == validateMileageProgression(dv, previous, current, i - 1)
         IN  IF terr # Nil THEN terr
             ELSE IF merr # Nil THEN merr
             ELSE ValidatePairsIndexPrevious(dv, records, i + 1)

\* the second loop: consecutive pairs, i the 0-based index of the current record
RECURSIVE ValidatePairs(_, _, _)
ValidatePairs(dv, records, i) ==
    IF i >= Len(records) THEN Nil
    ELSE LET current == records[i + 1]
             previous == records[i]
             terr == validateTimingConstraints(dv, previous, current, i)
             merr == validateMileageProgression(dv, previous, current, i)
         IN  IF terr # Nil THEN terr
             ELSE IF merr # Nil THEN merr
             ELSE ValidatePairs(dv, records, i + 1)

\* a validator that lets the empty list through
ValidateSequenceEmptyAccepted(dv, records) ==
    IF Len(records) = 0 THEN Nil
    ELSE IF Len(records) = 1 THEN ValidateRecord(records[1])
    ELSE LET err == ValidateEach(records, 1)
         IN  IF err # Nil THEN err ELSE ValidatePairs(dv, records, 1)

\* a validator that walks the pairs before it looks at the records one by one
ValidateSequencePairsFirst(dv, records) ==
    IF Len(records) = 0 THEN ValidationError("sequence", 0 - 1, "sequence")
    ELSE IF Len(records) = 1 THEN ValidateRecord(records[1])
    ELSE LET err == ValidatePairs(dv, records, 1)
         IN  IF err # Nil THEN err ELSE ValidateEach(records, 1)

ValidateSequence(dv, records) ==
    IF Len(records) = 0 THEN ValidationError("sequence", 0 - 1, "sequence")
    ELSE IF Len(records) = 1 THEN ValidateRecord(records[1])
    ELSE LET err == ValidateEach(records, 1)
         IN  IF err # Nil THEN err ELSE ValidatePairs(dv, records, 1)

(***************************************************************************)
(* Line parser (inputparser).  A line is a sequence of one-character       *)
(* strings.                                                                *)
(***************************************************************************)
DigitChars == <<"0", "1", "2", "3", "4", "5", "6", "7", "8", "9">>

IsDigit(c) == c \in {"0", "1", "2", "3", "4", "5", "6", "7", "8", "9"}

DigitVal(c) == (CHOOSE k \in 1..10 : DigitChars[k] = c) - 1

\* the ASCII white space strings.TrimSpace removes
IsSpace(c) == c \in {" ", "\t", "\r", "\n", "\f"}

RECURSIVE TrimLeft(_)
TrimLeft(s) == IF s # <<>> /\ IsSpace(Head(s)) THEN TrimLeft(Tail(s)) ELSE s

RECURSIVE TrimRight(_)
TrimRight(s) ==
    IF s # <<>> /\ IsSpace(s[Len(s)]) THEN TrimRight(SubSeq(s, 1, Len(s) - 1)) ELSE s

TrimSpace(s) == TrimRight(TrimLeft(s))

AllDigits(s, a, b) == \A k \in a..b : IsDigit(s[k])

\* the value of a run of decimal digits
RECURSIVE DigitsToInt(_, _)
DigitsToInt(s, acc) ==
    IF s = <<>> THEN acc ELSE DigitsToInt(Tail(s), acc * 10 + DigitVal(Head(s)))

\* \d{2}:\d{2}:\d{2}\.\d{3}, anchored at both ends of s
TimestampShape(s) ==
    /\ Len(s) = 12
    /\ \A k \in {1, 2, 4, 5, 7, 8, 10, 11, 12} : IsDigit(s[k])
    /\ s[3] = ":" /\ s[6] = ":" /\ s[9] = "."

\* distancePattern ^\d{8,}\.\d+$: the position of the point, 0 without a match
DistancePoint(s) ==
    LET points == {p \in 9..(Len(s) - 1) : s[p] = "."}
        p == CHOOSE q \in points : TRUE
    IN  IF Cardinality(points) = 1 /\ AllDigits(s, 1, p - 1) /\ AllDigits(s, p + 1, Len(s))
        THEN p
        ELSE 0

\* linePattern ^(\d{2}:\d{2}:\d{2}\.\d{3}) (\d{8,}\.\d+)$
LinePatternMatches(s) ==
    /\ Len(s) >= 14
    /\ TimestampShape(SubSeq(s, 1, 12))
    /\ s[13] = " "
    /\ DistancePoint(SubSeq(s, 14, Len(s))) # 0

\* time.Parse with the layout 15:04:05.000, on a 12-character string
parseTimestamp(timestampStr) ==
    IF timestampStr = <<>> THEN [Time |-> ZeroTime, Error |-> ParsingError("timestamp", 0)]
    ELSE IF ~TimestampShape(timestampStr)
    THEN [Time |-> ZeroTime, Error |-> ParsingError("timestamp", 0)]
    ELSE LET hour == DigitsToInt(SubSeq(timestampStr, 1, 2), 0)
             min == DigitsToInt(SubSeq(timestampStr, 4, 5), 0)
             sec == DigitsToInt(SubSeq(timestampStr, 7, 8), 0)
             msec == DigitsToInt(SubSeq(timestampStr, 10, 12), 0)
         IN  IF hour >= 24 \/ min >= 60 \/ sec >= 60
             THEN [Time |-> ZeroTime, Error |-> ParsingError("timestamp", 0)]
             ELSE [Time |-> Time(((hour * 60 + min) * 60 + sec) * 1000 + msec),
                   Error |-> Nil]

validateTimestampFormat(timestampStr) ==
    IF Len(timestampStr) # 12 THEN ParsingError("timestamp", 0)
    ELSE IF timestampStr[3] # ":" THEN ParsingError("timestamp", 0)
    ELSE IF timestampStr[6] # ":" THEN ParsingError("timestamp", 0)
    ELSE IF timestampStr[9] # "." THEN ParsingError("timestamp", 0)
    ELSE Nil

parseTimestampWithValidation(timestampStr) ==
    LET err == validateTimestampFormat(timestampStr)
    IN  IF err # Nil
        THEN [Time |-> ZeroTime, Error |-> err]
        ELSE parseTimestamp(timestampStr)

\* decimal.NewFromString on digits, a point and digits: the digits before the
\* point are the integer part, every digit after it is kept
NewFromString(s) ==
    LET p == CHOOSE q \in 1..Len(s) : s[q] = "."
    IN  Dec(FALSE, DigitsToInt(SubSeq(s, 1, p - 1), 0),
            [k \in 1..(Len(s) - p) |-> DigitVal(s[p + k])])

\* big.Int.String: the decimal digits of n, without leading zeros
RECURSIVE IntToDigits(_)
IntToDigits(n) ==
    IF n < 10 THEN <<DigitChars[n + 1]>>
    ELSE Append(IntToDigits(n \div 10), DigitChars[(n % 10) + 1])

RECURSIVE TrimTrailingZeros(_)
TrimTrailingZeros(f) ==
    IF f # <<>> /\ f[Len(f)] = 0 THEN TrimTrailingZeros(SubSeq(f, 1, Len(f) - 1)) ELSE f

\* Decimal.String: the integer part, then the point and the fraction digits
\* with the trailing zeros cut, the point dropped when no digit is left
String(d) ==
    LET fractionalPart == TrimTrailingZeros(d.frac)
        number == IntToDigits(d.int)
                      \o (IF fractionalPart = <<>> THEN <<>>
                          ELSE <<".">> \o [k \in 1..Len(fractionalPart) |->
                                              DigitChars[fractionalPart[k] + 1]])
    IN  IF IsNegative(d) THEN <<"-">> \o number ELSE number

validateDistanceFormat(distanceStr) ==
    IF DistancePoint(distanceStr) = 0 THEN ParsingError("distance", 0) ELSE Nil

parseDistance(distanceStr) ==
    IF distanceStr = <<>> THEN [Distance |-> Zero, Error |-> ParsingError("distance", 0)]
    ELSE IF DistancePoint(distanceStr) = 0
    THEN [Distance |-> Zero, Error |-> ParsingError("distance", 0)]
    ELSE LET distance == NewFromString(distanceStr)
         IN  IF IsNegative(distance)
             THEN [Distance |-> Zero, Error |-> ParsingError("distance", 0)]
             ELSE [Distance |-> distance, Error |-> Nil]

parseDistanceWithValidation(distanceStr) ==
    LET err == validateDistanceFormat(distanceStr)
    IN  IF err # Nil
        THEN [Distance |-> Zero, Error |-> err]
        ELSE parseDistance(distanceStr)

\* a parser that reads the timestamp before it matches the whole line
parseLineTimestampFirst(rawLine, lineNum) ==
    LET line == TrimSpace(rawLine)
        timestampStr == SubSeq(line, 1, 12)
        distanceStr == SubSeq(line, 14, Len(line))
        ts == parseTimestampWithValidation(timestampStr)
        ds == parseDistanceWithValidation(distanceStr)
    IN  IF line = <<>>
        THEN [Record |-> EmptyRecord, Error |-> ParsingError("format", lineNum)]
        ELSE IF Len(line) >= 12 /\ ts.Error # Nil
        THEN [Record |-> EmptyRecord, Error |-> [ts.Error EXCEPT !.Line = lineNum]]
        ELSE IF ~LinePatternMatches(line)
        THEN [Record |-> EmptyRecord, Error |-> ParsingError("format", lineNum)]
        ELSE IF ds.Error # Nil
        THEN [Record |-> EmptyRecord, Error |-> [ds.Error EXCEPT !.Line = lineNum]]
        ELSE [Record |-> DistanceRecord(ts.Time, ds.Distance), Error |-> Nil]

parseLine(rawLine, lineNum) ==
    LET line == TrimSpace(rawLine)
        timestampStr == SubSeq(line, 1, 12)
        distanceStr == SubSeq(line, 14, Len(line))
        ts == parseTimestampWithValidation(timestampStr)
        ds == parseDistanceWithValidation(distanceStr)
    IN  IF line = <<>>
        THEN [Record |-> EmptyRecord, Error |-> ParsingError("format", lineNum)]
        ELSE IF ~LinePatternMatches(line)
        THEN [Record |-> EmptyRecord, Error |-> ParsingError("format", lineNum)]
        ELSE IF ts.Error # Nil
        THEN [Record |-> EmptyRecord, Error |-> [ts.Error EXCEPT !.Line = lineNum]]
        ELSE IF ds.Error # Nil
        THEN [Record |-> EmptyRecord, Error |-> [ds.Error EXCEPT !.Line = lineNum]]
        ELSE [Record |-> DistanceRecord(ts.Time, ds.Distance), Error |-> Nil]

ParseResult(record, error, line) == [Record |-> record, Error |-> error, Line |-> line]

(***************************************************************************)
(* State.  The parser goroutine of ParseStream and the consumer loop of    *)
(* Application.Run share the buffered channel and the cancellation signal. *)
(***************************************************************************)
VARIABLES
    input,              \* the lines the reader holds
    readErr,            \* whether the reader fails after the last line
    lineNum,            \* ParseStream: lines scanned so far
    ppc,                \* ParseStream goroutine: where it stands
    pending,            \* ParseStream: the result it is about to send
    chan,               \* resultChan: the buffered outcomes
    closed,             \* resultChan has been closed
    parserEnd,          \* how the goroutine returned
    cancelled,          \* app.ctx is done
    cancelledMidInput,  \* the signal fired while Run ran and lines were unread
    rpc,                \* Run: where it stands
    records,            \* Run: the records accumulated
    processingErrors,   \* Run: the errors accumulated
    received,           \* every outcome Run took from the channel, in order
    completed,          \* Run reached ProcessComplete
    runErr,             \* the error Run ended with (Nil: none)
    calculation,        \* the result of CalculateFromRecords, once called
    output,             \* what the formatter printed
    fareIn,             \* fare engine: the sampled distances
    fareOut,            \* fare engine: their breakdowns
    seqIn,              \* validator and CalculateFromRecords: the sampled call
    seqOut,             \* validator and CalculateFromRecords: what they return
    lineIn,             \* parseLine: the sampled line and line number
    lineOut,            \* parseLine: what it returns
    distIn,             \* parseDistance: the sampled literal
    distOut             \* parseDistance: the value and its text

vars == <<input, readErr, lineNum, ppc, pending, chan, closed, parserEnd, cancelled,
          cancelledMidInput, rpc, records, processingErrors, received, completed,
          runErr, calculation, output, fareIn, fareOut, seqIn, seqOut, lineIn, lineOut,
          distIn, distOut>>

parserVars == <<lineNum, ppc, pending, chan, closed, parserEnd>>

runVars == <<rpc, records, processingErrors, received, completed, runErr,
             calculation, output>>

fareVars == <<fareIn, fareOut>>

seqVars == <<seqIn, seqOut>>

lineVars == <<lineIn, lineOut>>

distVars == <<distIn, distOut>>

\* the state of the calls checked on their own, which the pipeline leaves alone
callVars == <<fareVars, seqVars, lineVars, distVars>>

\* resultChan := make(chan ParseResult, 10)
ChanCap == 10

\* the longest input of arbitrary lines
MaxLines == 3

\* how many lines more than the channel holds the longest uniform input has
MaxOverflow == 1

TsNoon == <<"1", "2", ":", "0", "0", ":", "0", "0", ".", "0", "0", "0">>

TsNoon1 == <<"1", "2", ":", "0", "0", ":", "0", "1", ".", "0", "0", "0">>

TsBeforeNoon == <<"1", "1", ":", "5", "9", ":", "5", "9", ".", "0", "0", "0">>

LineA == TsNoon \o <<" ", "1", "2", "3", "4", "5", "6", "7", "8", ".", "0">>

LineB == TsNoon1 \o <<" ", "1", "2", "3", "4", "6", "6", "7", "8", ".", "5">>

LineEarly == TsBeforeNoon \o <<" ", "1", "2", "3", "4", "5", "0", "0", "0", ".", "0">>

LineBlank == <<" ">>

LineBad == <<"b", "a", "d">>

LineSamples == {LineA, LineB, LineEarly, LineBlank, LineBad}

RECURSIVE SeqsUpTo(_, _)
SeqsUpTo(S, n) ==
    IF n = 0 THEN {<<>>}
    ELSE LET shorter == SeqsUpTo(S, n - 1)
         IN  shorter \cup {Append(q, x) : q \in {r \in shorter : Len(r) = n - 1}, x \in S}

\* inputs: every short sequence of sample lines, and uniform inputs longer
\* than the channel buffer
Inputs ==
    SeqsUpTo(LineSamples, MaxLines)
    \cup {[i \in 1..n |-> LineA] : n \in (ChanCap + 1)..(ChanCap + MaxOverflow)}

NoCalculation == [kind |-> "none"]

NoResult == ParseResult(EmptyRecord, Nil, 0)

InitFareVars ==
    /\ fareIn = <<Zero, Zero>>
    /\ fareOut = <<>>

InitSeqVars ==
    /\ seqIn = [records |-> <<>>, permuted |-> <<>>, dv |-> NewValidator]
    /\ seqOut = <<>>

InitLineVars ==
    /\ lineIn = [line |-> <<>>, lineNum |-> 0]
    /\ lineOut = <<>>

InitDistVars ==
    /\ distIn = <<>>
    /\ distOut = <<>>

InitPipelineVars ==
    /\ lineNum = 0
    /\ ppc = "scan"
    /\ pending = NoResult
    /\ chan = <<>>
    /\ closed = FALSE
    /\ parserEnd = "running"
    /\ cancelled = FALSE
    /\ cancelledMidInput = FALSE
    /\ rpc = "select"
    /\ records = <<>>
    /\ processingErrors = <<>>
    /\ received = <<>>
    /\ completed = FALSE
    /\ runErr = Nil
    /\ calculation = NoCalculation
    /\ output = <<>>

Init ==
    /\ input \in Inputs
    /\ readErr \in BOOLEAN
    /\ InitPipelineVars
    /\ InitFareVars
    /\ InitSeqVars
    /\ InitLineVars
    /\ InitDistVars

(***************************************************************************)
(* The goroutine of ParseStream                                            *)
(***************************************************************************)
\* for scanner.Scan(): the next line, or the end of the loop; at the end,
\* without a scanner error the goroutine returns and the deferred close runs
Scan ==
    /\ ppc = "scan"
    /\ IF lineNum < Len(input)
       THEN /\ lineNum' = lineNum + 1
            /\ ppc' = "check"
            /\ UNCHANGED <<closed, parserEnd>>
       ELSE IF readErr
       THEN /\ ppc' = "ioerr"
            /\ UNCHANGED <<lineNum, closed, parserEnd>>
       ELSE /\ ppc' = "done"
            /\ closed' = TRUE
            /\ parserEnd' = "eof"
            /\ UNCHANGED lineNum
    /\ UNCHANGED <<pending, chan>>
    /\ UNCHANGED <<input, readErr, cancelled, cancelledMidInput>>
    /\ UNCHANGED runVars
    /\ UNCHANGED callVars

\* a parser that does not skip blank lines
CheckLineKeepingBlanks ==
    /\ ppc = "check"
    /\ IF cancelled
       THEN /\ ppc' = "sendcancel"
            /\ UNCHANGED pending
       ELSE /\ ppc' = "send"
            /\ pending' = ParseResult(parseLine(input[lineNum], lineNum).Record,
                                      parseLine(input[lineNum], lineNum).Error,
                                      lineNum)
    /\ UNCHANGED <<lineNum, chan, closed, parserEnd>>
    /\ UNCHANGED <<input, readErr, cancelled, cancelledMidInput>>
    /\ UNCHANGED runVars
    /\ UNCHANGED callVars

\* a parser that does not look at the context at the line boundary
CheckLineUncancelled ==
    /\ ppc = "check"
    /\ IF TrimSpace(input[lineNum]) = <<>>
       THEN /\ ppc' = "scan"
            /\ UNCHANGED pending
       ELSE /\ ppc' = "send"
            /\ pending' = ParseResult(parseLine(input[lineNum], lineNum).Record,
                                      parseLine(input[lineNum], lineNum).Error,
                                      lineNum)
    /\ UNCHANGED <<lineNum, chan, closed, parserEnd>>
    /\ UNCHANGED <<input, readErr, cancelled, cancelledMidInput>>
    /\ UNCHANGED runVars
    /\ UNCHANGED callVars

\* the select with default at the line boundary, then the line itself:
\* a blank line is skipped, any other line is parsed
CheckLine ==
    /\ ppc = "check"
    /\ IF cancelled
       THEN /\ ppc' = "sendcancel"
            /\ UNCHANGED pending
       ELSE IF TrimSpace(input[lineNum]) = <<>>
       THEN /\ ppc' = "scan"
            /\ UNCHANGED pending
       ELSE /\ ppc' = "send"
            /\ pending' = ParseResult(parseLine(input[lineNum], lineNum).Record,
                                      parseLine(input[lineNum], lineNum).Error,
                                      lineNum)
    /\ UNCHANGED <<lineNum, chan, closed, parserEnd>>
    /\ UNCHANGED <<input, readErr, cancelled, cancelledMidInput>>
    /\ UNCHANGED runVars
    /\ UNCHANGED callVars

\* resultChan <- ParseResult{Error: ctx.Err()}: a plain send, then return
SendCancelled ==
    /\ ppc = "sendcancel"
    /\ Len(chan) < ChanCap
    /\ chan' = Append(chan, ParseResult(EmptyRecord, ContextCanceled, lineNum))
    /\ ppc' = "done"
    /\ closed' = TRUE
    /\ parserEnd' = "cancel"
    /\ UNCHANGED <<lineNum, pending>>
    /\ UNCHANGED <<input, readErr, cancelled, cancelledMidInput>>
    /\ UNCHANGED runVars
    /\ UNCHANGED callVars

\* a channel that hands the newest outcome over first
SendResultNewestFirst ==
    /\ ppc = "send"
    /\ Len(chan) < ChanCap
    /\ chan' = <<pending>> \o chan
    /\ ppc' = "scan"
    /\ UNCHANGED <<lineNum, pending, closed, parserEnd>>
    /\ UNCHANGED <<input, readErr, cancelled, cancelledMidInput>>
    /\ UNCHANGED runVars
    /\ UNCHANGED callVars

\* a channel that keeps only the newest outcome
SendResultLossy ==
    /\ ppc = "send"
    /\ Len(chan) < ChanCap
    /\ chan' = <<pending>>
    /\ ppc' = "scan"
    /\ UNCHANGED <<lineNum, pending, closed, parserEnd>>
    /\ UNCHANGED <<input, readErr, cancelled, cancelledMidInput>>
    /\ UNCHANGED runVars
    /\ UNCHANGED callVars

\* select: case resultChan <- result
SendResult ==
    /\ ppc = "send"
    /\ Len(chan) < ChanCap
    /\ chan' = Append(chan, pending)
    /\ ppc' = "scan"
    /\ UNCHANGED <<lineNum, pending, closed, parserEnd>>
    /\ UNCHANGED <<input, readErr, cancelled, cancelledMidInput>>
    /\ UNCHANGED runVars
    /\ UNCHANGED callVars

\* select: case <-ctx.Done(): return
SendAbandoned ==
    /\ ppc = "send"
    /\ cancelled
    /\ ppc' = "done"
    /\ closed' = TRUE
    /\ parserEnd' = "abandoned"
    /\ UNCHANGED <<lineNum, pending, chan>>
    /\ UNCHANGED <<input, readErr, cancelled, cancelledMidInput>>
    /\ UNCHANGED runVars
    /\ UNCHANGED callVars

\* scanner.Err() != nil, select: case resultChan <- the IO error
SendIOError ==
    /\ ppc = "ioerr"
    /\ Len(chan) < ChanCap
    /\ chan' = Append(chan, ParseResult(EmptyRecord, ParsingError("io", lineNum), lineNum))
    /\ ppc' = "done"
    /\ closed' = TRUE
    /\ parserEnd' = "ioerr"
    /\ UNCHANGED <<lineNum, pending>>
    /\ UNCHANGED <<input, readErr, cancelled, cancelledMidInput>>
    /\ UNCHANGED runVars
    /\ UNCHANGED callVars

\* scanner.Err() != nil, select: case <-ctx.Done()
IOErrorAbandoned ==
    /\ ppc = "ioerr"
    /\ cancelled
    /\ ppc' = "done"
    /\ closed' = TRUE
    /\ parserEnd' = "abandoned"
    /\ UNCHANGED <<lineNum, pending, chan>>
    /\ UNCHANGED <<input, readErr, cancelled, cancelledMidInput>>
    /\ UNCHANGED runVars
    /\ UNCHANGED callVars

Parser ==
    \/ Scan
    \/ CheckLine
    \/ SendCancelled
    \/ SendResult
    \/ SendAbandoned
    \/ SendIOError
    \/ IOErrorAbandoned

(***************************************************************************)
(* Cancellation                                                            *)
(***************************************************************************)
\* the signal goroutine of Run: SIGINT or SIGTERM, then app.cancel()
Signal ==
    /\ rpc = "select"
    /\ ~cancelled
    /\ cancelled' = TRUE
    /\ cancelledMidInput' = (lineNum < Len(input))
    /\ UNCHANGED <<input, readErr>>
    /\ UNCHANGED parserVars
    /\ UNCHANGED runVars
    /\ UNCHANGED callVars

\* main: the deferred Cleanup cancels the context once Run has returned
Cleanup ==
    /\ rpc = "returned"
    /\ ~cancelled
    /\ cancelled' = TRUE
    /\ UNCHANGED <<input, readErr, cancelledMidInput>>
    /\ UNCHANGED parserVars
    /\ UNCHANGED runVars
    /\ UNCHANGED callVars

(***************************************************************************)
(* Application.Run.  HandleError of the handler NewErrorHandler builds     *)
(* (ExitOnError) ends the process with the error: rpc = "exited".          *)
(***************************************************************************)
\* a consumer that takes every error outcome for a critical one
isCriticalErrorAlways(err) == TRUE

isCriticalError(err) == err.kind \notin {"ParsingError", "ValidationError"}

\* select: case <-app.ctx.Done(): return app.ctx.Err()
RunCancelled ==
    /\ rpc = "select"
    /\ cancelled
    /\ rpc' = "returned"
    /\ runErr' = ContextCanceled
    /\ UNCHANGED <<records, processingErrors, received, completed, calculation, output>>
    /\ UNCHANGED <<input, readErr, cancelled, cancelledMidInput>>
    /\ UNCHANGED parserVars
    /\ UNCHANGED callVars

\* select: case parseResult, ok := <-parseResultChan, with ok
RunReceive ==
    /\ rpc = "select"
    /\ chan # <<>>
    /\ chan' = Tail(chan)
    /\ received' = Append(received, Head(chan))
    /\ LET parseResult == Head(chan)
       IN  IF parseResult.Error # Nil
           THEN /\ processingErrors' = Append(processingErrors, parseResult.Error)
                /\ IF isCriticalError(parseResult.Error)
                   THEN rpc' = "exited" /\ runErr' = parseResult.Error
                   ELSE UNCHANGED <<rpc, runErr>>
                /\ UNCHANGED records
           ELSE IF ValidateRecord(parseResult.Record) # Nil
           THEN /\ processingErrors' =
                       Append(processingErrors, ValidateRecord(parseResult.Record))
                /\ UNCHANGED <<rpc, runErr, records>>
           ELSE /\ records' = Append(records, parseResult.Record)
                /\ UNCHANGED <<rpc, runErr, processingErrors>>
    /\ UNCHANGED <<completed, calculation, output>>
    /\ UNCHANGED <<lineNum, ppc, pending, closed, parserEnd>>
    /\ UNCHANGED <<input, readErr, cancelled, cancelledMidInput>>
    /\ UNCHANGED callVars

\* FormatProcessingResult of the console formatter: the total fare, rounded
FormatProcessingResult(result) == <<result.Calculation.TotalFare.int>>

\* a consumer that prices the records without looking at ValidateSequence
ProcessCompleteUnvalidated ==
    /\ rpc = "select"
    /\ chan = <<>>
    /\ closed
    /\ completed' = TRUE
    /\ IF Len(records) = 0
       THEN /\ rpc' = "exited"
            /\ runErr' = InsufficientData
            /\ UNCHANGED <<calculation, output>>
       ELSE /\ calculation' = CalculateFromRecords(records)
            /\ output' = FormatProcessingResult(
                             [Records |-> records,
                              Calculation |-> CalculateFromRecords(records)])
            /\ rpc' = "returned"
            /\ runErr' = Nil
    /\ UNCHANGED <<records, processingErrors, received>>
    /\ UNCHANGED <<input, readErr, cancelled, cancelledMidInput>>
    /\ UNCHANGED parserVars
    /\ UNCHANGED callVars

\* a consumer that goes on to ValidateSequence without counting the records
ProcessCompleteUncounted ==
    /\ rpc = "select"
    /\ chan = <<>>
    /\ closed
    /\ completed' = TRUE
    /\ IF ValidateSequence(NewValidator, records) # Nil
       THEN /\ rpc' = "exited"
            /\ runErr' = ValidateSequence(NewValidator, records)
            /\ UNCHANGED <<calculation, output>>
       ELSE /\ calculation' = CalculateFromRecords(records)
            /\ output' = FormatProcessingResult(
                             [Records |-> records,
                              Calculation |-> CalculateFromRecords(records)])
            /\ rpc' = "returned"
            /\ runErr' = Nil
    /\ UNCHANGED <<records, processingErrors, received>>
    /\ UNCHANGED <<input, readErr, cancelled, cancelledMidInput>>
    /\ UNCHANGED parserVars
    /\ UNCHANGED callVars

\* select: the channel is closed and drained: ProcessComplete
ProcessComplete ==
    /\ rpc = "select"
    /\ chan = <<>>
    /\ closed
    /\ completed' = TRUE
    /\ IF Len(records) = 0
       THEN /\ rpc' = "exited"
            /\ runErr' = InsufficientData
            /\ UNCHANGED <<calculation, output>>
       ELSE IF ValidateSequence(NewValidator, records) # Nil
       THEN /\ rpc' = "exited"
            /\ runErr' = ValidateSequence(NewValidator, records)
            /\ UNCHANGED <<calculation, output>>
       ELSE /\ calculation' = CalculateFromRecords(records)
            /\ output' = FormatProcessingResult(
                             [Records |-> records,
                              Calculation |-> CalculateFromRecords(records)])
            /\ rpc' = "returned"
            /\ runErr' = Nil
    /\ UNCHANGED <<records, processingErrors, received>>
    /\ UNCHANGED <<input, readErr, cancelled, cancelledMidInput>>
    /\ UNCHANGED parserVars
    /\ UNCHANGED callVars

Run ==
    \/ RunCancelled
    \/ RunReceive
    \/ ProcessComplete

Next ==
    \/ Scan
    \/ CheckLine
    \/ SendCancelled
    \/ SendResult
    \/ SendAbandoned
    \/ SendIOError
    \/ IOErrorAbandoned
    \/ Signal
    \/ Cleanup
    \/ RunCancelled
    \/ RunReceive
    \/ ProcessComplete

Spec == Init /\ [][Next]_vars

\* the longest fractional part a sampled distance carries
MaxFracDigits == 18

\* fractional parts: none, a half, and one unit in the n-th place
FracSamples ==
    {<<>>, <<5>>} \cup
    {[k \in 1..n |-> IF k = n THEN 1 ELSE 0] : n \in 1..MaxFracDigits}

IntSamples == {0, 1, 1000, 1001, 1400, 1401, 10000, 10001, 10350, 10351, 12000}

DistanceSamples ==
    {Dec(FALSE, i, f) : i \in IntSamples, f \in FracSamples}
    \cup {Dec(TRUE, 5, f) : f \in {<<>>, <<5>>}}

(***************************************************************************)
(* Properties of the pipeline                                              *)
(***************************************************************************)
IsPrefix(a, b) == Len(a) <= Len(b) /\ SubSeq(b, 1, Len(a)) = a

\* the parse outcome of every non-blank line, in input order, each with the
\* 1-based number of its line
RECURSIVE LineOutcomesFrom(_, _)
LineOutcomesFrom(lines, k) ==
    IF k > Len(lines) THEN <<>>
    ELSE IF TrimSpace(lines[k]) = <<>> THEN LineOutcomesFrom(lines, k + 1)
    ELSE LET parsed == parseLine(lines[k], k)
         IN  <<ParseResult(parsed.Record, parsed.Error, k)>>
             \o LineOutcomesFrom(lines, k + 1)

LineOutcomes(lines) == LineOutcomesFrom(lines, 1)

IsGoodOutcome(r) == r.Error = Nil /\ ValidateRecord(r.Record) = Nil

RECURSIVE RecordsOf(_)
RecordsOf(outcomes) ==
    IF outcomes = <<>> THEN <<>>
    ELSE IF IsGoodOutcome(Head(outcomes))
    THEN <<Head(outcomes).Record>> \o RecordsOf(Tail(outcomes))
    ELSE RecordsOf(Tail(outcomes))

\* the records of the lines that parse and pass ValidateRecord
ValidRecords(lines) == RecordsOf(LineOutcomes(lines))

IsCancelOutcome(r) == r.Error = ContextCanceled

IsIOOutcome(r) == r.Error = ParsingError("io", r.Line)

Emitted == received \o chan

RunEnded == rpc \in {"returned", "exited"}

\* C1: when the signal fires before the parser has read all of its input, Run
\* ends with the cancellation error and never validates, calculates and
\* formats a fare from the records accumulated so far: no partial result is
\* reported as a successful fare.
C1_NoPartialFare ==
    cancelledMidInput =>
        /\ calculation = NoCalculation
        /\ output = <<>>
        /\ ~(rpc = "returned" /\ runErr = Nil)

\* the goroutine of ParseStream waits at the send of the cancellation outcome,
\* the channel is full and the only receiver has ended: no step of the
\* program can ever let the goroutine go on to close the channel
ParserBlockedForEver ==
    /\ ppc = "sendcancel"
    /\ Len(chan) = ChanCap
    /\ RunEnded

\* C2: once the cancellation signal has fired, the goroutine of ParseStream
\* stops and closes the channel; it emits the cancellation outcome only if
\* the channel can take it and never blocks for ever on that emission,
\* whether or not the consumer still reads the channel.
C2_CancelNeverBlocks == cancelled => ~ParserBlockedForEver

StrictlyIncreasingLines(outcomes) ==
    \A i \in 1..(Len(outcomes) - 1) : outcomes[i].Line < outcomes[i + 1].Line

\* C3 as stated: the outcomes received so far carry strictly increasing line
\* numbers and are a prefix of the outcomes of the non-blank lines.
C3_StrictLineOrder ==
    /\ StrictlyIncreasingLines(received)
    /\ IsPrefix(received, LineOutcomes(input))

\* outcomes in line order: the outcomes of the non-blank lines, as far as they
\* go, then at most one closing outcome: the cancellation outcome, tagged with
\* a later line, or the IO error, tagged with the last line read
InLineOrder(outcomes, all) ==
    LET n == Len(outcomes)
        closing == n > 0 /\ (IsCancelOutcome(outcomes[n]) \/ IsIOOutcome(outcomes[n]))
        body == IF closing THEN SubSeq(outcomes, 1, n - 1) ELSE outcomes
    IN  /\ IsPrefix(body, all)
        /\ StrictlyIncreasingLines(body)
        /\ (closing /\ n > 1 /\ IsCancelOutcome(outcomes[n]))
               => outcomes[n - 1].Line < outcomes[n].Line
        /\ (closing /\ IsIOOutcome(outcomes[n]))
               => /\ outcomes[n].Line = Len(input)
                  /\ body = all

\* C3 (amended): the parser emits at most one parse outcome per line, and what
\* the consumer has received is always a prefix, in line order, of the
\* outcomes of the non-blank lines, followed by at most one closing
\* cancellation or IO-error outcome; line numbers never decrease, and only the
\* IO-error outcome repeats the number of the last line.
C3_LineOrder ==
    LET all == LineOutcomes(input)
    IN  InLineOrder(received, all) /\ InLineOrder(Emitted, all)

C3_Witness ==
    /\ Len(received) = 3
    /\ IsIOOutcome(received[3])
    /\ received[2].Line = received[3].Line
    /\ received[1].Line = 1
    /\ received[2].Line = 3

C5_ReadFailureFatal ==
    (\E i \in 1..Len(received) : IsIOOutcome(received[i])) =>
        /\ calculation = NoCalculation
        /\ output = <<>>
        /\ ~(rpc = "returned" /\ runErr = Nil)

\* C6: a line that fails parsing, or a record that fails ValidateRecord, does
\* not stop the pipeline: the parser emits the error outcome and goes on, Run
\* ends before ProcessComplete only on cancellation, and the records Run
\* keeps are exactly those of the other lines, in input order, once the parser
\* has gone through the whole input.
C6_RecoverableLines ==
    LET all == LineOutcomes(input)
    IN  /\ IsPrefix(records, RecordsOf(all))
        /\ parserEnd = "eof" => Emitted = all
        /\ (RunEnded /\ ~completed) => runErr = ContextCanceled
        /\ (completed /\ parserEnd \in {"eof", "ioerr"}) => records = RecordsOf(all)

C6_Witness ==
    /\ input = <<LineA, LineBad, LineB>>
    /\ completed
    /\ Len(received) = 3
    /\ received[2].Error = ParsingError("format", 2)
    /\ records = ValidRecords(input)
    /\ Len(records) = 2
    /\ output = <<440>>

(***************************************************************************)
(* Fare engine on sampled distances: two distances are drawn, one step     *)
(* prices them both.                                                       *)
(***************************************************************************)
InitFare ==
    /\ fareIn \in DistanceSamples \X DistanceSamples
    /\ fareOut = <<>>
    /\ input = <<>>
    /\ readErr = FALSE
    /\ InitPipelineVars
    /\ InitSeqVars
    /\ InitLineVars
    /\ InitDistVars

FareCall ==
    /\ fareOut = <<>>
    /\ fareOut' = <<CalculateFare(fareIn[1]), CalculateFare(fareIn[2])>>
    /\ UNCHANGED fareIn
    /\ UNCHANGED <<seqVars, lineVars, distVars>>
    /\ UNCHANGED <<input, readErr, cancelled, cancelledMidInput>>
    /\ UNCHANGED parserVars
    /\ UNCHANGED runVars

NextFare == FareCall

FareSpec == InitFare /\ [][NextFare]_vars

\* C7: CalculateFare is monotone: for d1 <= d2 the total fare of d1 is at
\* most the total fare of d2, across the thresholds 0, 1000 and 10000.
C7_Monotone ==
    (fareOut # <<>> /\ LessThanOrEqual(fareIn[1], fareIn[2]))
        => LessThanOrEqual(fareOut[1].TotalFare, fareOut[2].TotalFare)

C7_Witness ==
    /\ fareOut # <<>>
    /\ fareIn[1] = NewFromInt(10000)
    /\ fareIn[2] = Dec(FALSE, 10000, <<5>>)
    /\ fareOut[1].TotalFare = NewFromInt(1320)
    /\ fareOut[2].TotalFare = NewFromInt(1360)

\* the ceiling of x / m on the exact value of x > 0, m a positive integer
ExactCeilUnits(x, m) ==
    (x.int \div m) + (IF x.int % m # 0 \/ ~FracIsZero(x.frac) THEN 1 ELSE 0)

InStandardTier(d) ==
    GreaterThan(d, BaseDistance) /\ LessThanOrEqual(d, StandardThreshold)

\* C8: for 1000 < d <= 10000 the standard amount is ceil((d - 1000) / 400) * 40
\* on the exact decimal value (any non-empty fraction of a block is a full
\* block) and the extended amount is 0.
C8_StandardTier ==
    \A i \in 1..Len(fareOut) :
        InStandardTier(fareIn[i]) =>
            /\ Equal(fareOut[i].StandardFareAmount,
                     NewFromInt(ExactCeilUnits(Sub(fareIn[i], BaseDistance), 400) * 40))
            /\ IsZero(fareOut[i].ExtendedFareAmount)

\* C9: for d > 10000 the standard amount is 920 and the extended amount is
\* ceil((d - 10000) / 350) * 40 on the exact decimal value.
C9_ExtendedTier ==
    \A i \in 1..Len(fareOut) :
        GreaterThan(fareIn[i], StandardThreshold) =>
            /\ Equal(fareOut[i].StandardFareAmount, NewFromInt(920))
            /\ Equal(fareOut[i].ExtendedFareAmount,
                     NewFromInt(ExactCeilUnits(Sub(fareIn[i], StandardThreshold), 350) * 40))

\* C10: for 0 < d <= 1000, however small, the fare is the base fare alone:
\* base 400, standard 0, extended 0, total 400.
C10_BaseTier ==
    \A i \in 1..Len(fareOut) :
        (GreaterThan(fareIn[i], Zero) /\ LessThanOrEqual(fareIn[i], BaseDistance)) =>
            /\ Equal(fareOut[i].BaseFareAmount, NewFromInt(400))
            /\ IsZero(fareOut[i].StandardFareAmount)
            /\ IsZero(fareOut[i].ExtendedFareAmount)
            /\ Equal(fareOut[i].TotalFare, NewFromInt(400))

C10_Witness ==
    /\ fareOut # <<>>
    /\ fareIn[1] = Dec(FALSE, 0, [k \in 1..MaxFracDigits |-> IF k = MaxFracDigits THEN 1 ELSE 0])
    /\ fareIn[2] = NewFromInt(1000)
    /\ fareOut[1].TotalFare = NewFromInt(400)
    /\ fareOut[2].TotalFare = NewFromInt(400)

\* C11: for every distance d <= 0, zero or negative, the base, standard and
\* extended amounts and the total are all 0: a negative distance is priced
\* as the distance 0 is.
C11_NonPositiveIsFree ==
    \A i \in 1..Len(fareOut) :
        LessThanOrEqual(fareIn[i], Zero) =>
            /\ fareOut[i].BaseFareAmount = Zero
            /\ fareOut[i].StandardFareAmount = Zero
            /\ fareOut[i].ExtendedFareAmount = Zero
            /\ fareOut[i].TotalFare = Zero
            /\ fareOut[i].TotalFare = CalculateFare(Zero).TotalFare

C11_Witness ==
    /\ fareOut # <<>>
    /\ fareIn[1] = NewFromInt(0 - 5)
    /\ fareIn[2] = Zero
    /\ fareOut[1].TotalFare = Zero
    /\ fareOut[2].TotalFare = Zero

\* C12: every breakdown CalculateFare returns has TotalFare = BaseFareAmount
\* + StandardFareAmount + ExtendedFareAmount, the early return for a zero or
\* negative distance included.
C12_TotalIsSum ==
    \A i \in 1..Len(fareOut) :
        Equal(fareOut[i].TotalFare,
              Add(Add(fareOut[i].BaseFareAmount, fareOut[i].StandardFareAmount),
                  fareOut[i].ExtendedFareAmount))

C12_Witness ==
    /\ fareOut # <<>>
    /\ fareIn[1] = NewFromInt(12000)
    /\ fareIn[2] = NewFromInt(0 - 5)
    /\ fareOut[1].BaseFareAmount = NewFromInt(400)
    /\ fareOut[1].StandardFareAmount = NewFromInt(920)
    /\ fareOut[1].ExtendedFareAmount = NewFromInt(240)
    /\ fareOut[1].TotalFare = NewFromInt(1560)
    /\ fareOut[2].TotalFare = Zero

(***************************************************************************)
(* Validator and CalculateFromRecords on sampled record lists: a list, a   *)
(* reordering of it and a validator configuration are drawn, one step      *)
(* validates and prices them.                                              *)
(***************************************************************************)
\* the longest sampled record list
MaxRecords == 3

TimeNoon == Time(12 * 60 * 60 * 1000)

\* noon plus exactly the default MaxInterval, and one millisecond more
TimeNoonPlusInterval == Time(TimeNoon.ms + NewValidator.MaxInterval)

TimeNoonPastInterval == Time(TimeNoon.ms + NewValidator.MaxInterval + 1)

DistanceLow == Dec(FALSE, 12345678, <<0>>)

DistanceHigh == Dec(FALSE, 12346878, <<5>>)

DistanceNegative == Dec(TRUE, 1, <<0>>)

RecordSamples ==
    {DistanceRecord(ZeroTime, DistanceLow), DistanceRecord(ZeroTime, DistanceNegative),
     DistanceRecord(TimeNoon, DistanceNegative)}
    \cup {DistanceRecord(t, d) : t \in {TimeNoon, TimeNoonPlusInterval, TimeNoonPastInterval},
                                 d \in {DistanceLow, DistanceHigh}}

Reverse(q) == [i \in 1..Len(q) |-> q[Len(q) + 1 - i]]

RotateLeft(q) == IF q = <<>> THEN q ELSE Tail(q) \o <<Head(q)>>

ValidatorSamples ==
    {NewValidatorWithOptions(NewValidator.MaxInterval, a, b) : a \in BOOLEAN, b \in BOOLEAN}

InitSeq ==
    /\ \E q \in SeqsUpTo(RecordSamples, MaxRecords), dv \in ValidatorSamples :
           \E p \in {Reverse(q), RotateLeft(q)} :
               seqIn = [records |-> q, permuted |-> p, dv |-> dv]
    /\ seqOut = <<>>
    /\ input = <<>>
    /\ readErr = FALSE
    /\ InitPipelineVars
    /\ InitFareVars
    /\ InitLineVars
    /\ InitDistVars

SeqCall ==
    /\ seqOut = <<>>
    /\ seqOut' = <<[each |-> [i \in 1..Len(seqIn.records) |->
                                 ValidateRecord(seqIn.records[i])],
                    sequence |-> ValidateSequence(seqIn.dv, seqIn.records),
                    calculation |-> CalculateFromRecords(seqIn.records),
                    permutedCalculation |-> CalculateFromRecords(seqIn.permuted)]>>
    /\ UNCHANGED seqIn
    /\ UNCHANGED <<input, readErr, cancelled, cancelledMidInput>>
    /\ UNCHANGED parserVars
    /\ UNCHANGED runVars
    /\ UNCHANGED <<fareVars, lineVars, distVars>>

NextSeq == SeqCall

SeqSpec == InitSeq /\ [][NextSeq]_vars

Distances(q) == {q[i].Distance : i \in 1..Len(q)}

\* the largest and the smallest of a non-empty set of decimals
LargestOf(ds) == CHOOSE d \in ds : \A e \in ds : LessThanOrEqual(e, d)

SmallestOf(ds) == CHOOSE d \in ds : \A e \in ds : LessThanOrEqual(d, e)

\* C13: CalculateFromRecords always returns a result: the all-zero result on
\* the empty list, and on a non-empty list, in whatever order the records
\* come, the total of CalculateFare(largest distance - smallest distance);
\* a reordering of the records gives the same result, one record gives 0.
C13_OrderIndependentTravel ==
    \A k \in 1..Len(seqOut) :
        LET recs == seqIn.records
            out == seqOut[k]
        IN  /\ Len(recs) = 0 => out.calculation = FareCalculation(Zero, Zero, Zero, Zero)
            /\ Len(recs) > 0 =>
                   Equal(out.calculation.TotalFare,
                         CalculateFare(Sub(LargestOf(Distances(recs)),
                                           SmallestOf(Distances(recs)))).TotalFare)
            /\ out.permutedCalculation = out.calculation
            /\ Len(recs) = 1 => IsZero(out.calculation.TotalFare)

C13_Witness ==
    /\ seqOut # <<>>
    /\ Len(seqIn.records) = 3
    /\ seqIn.records[1].Distance = DistanceHigh
    /\ seqIn.records[2].Distance = DistanceLow
    /\ seqIn.records[3].Distance = DistanceHigh
    /\ seqIn.permuted # seqIn.records
    /\ seqOut[1].calculation.TotalFare = NewFromInt(440)
    /\ seqOut[1].permutedCalculation.TotalFare = NewFromInt(440)

IsErrorOfType(err, type) == err # Nil /\ err.Type = type

\* C14: ValidateSequence fails on the empty list with a sequence-type error
\* whose record index is -1, and on a one-element list [r] it succeeds
\* exactly when ValidateRecord(r) does, with no timing or mileage check.
C14_EmptyAndSingle ==
    \A k \in 1..Len(seqOut) :
        LET recs == seqIn.records
            out == seqOut[k]
        IN  /\ Len(recs) = 0 =>
                   /\ IsErrorOfType(out.sequence, "sequence")
                   /\ out.sequence.RecordIndex = 0 - 1
            /\ Len(recs) = 1 =>
                   /\ (out.sequence = Nil) <=> (out.each[1] = Nil)
                   /\ ~IsErrorOfType(out.sequence, "timing")
                   /\ ~IsErrorOfType(out.sequence, "mileage")

C14_Witness ==
    /\ seqOut # <<>>
    /\ seqIn.records = <<DistanceRecord(ZeroTime, DistanceLow)>>
    /\ seqIn.dv = NewValidatorWithOptions(NewValidator.MaxInterval, FALSE, FALSE)
    /\ IsErrorOfType(seqOut[1].sequence, "format")
    /\ seqOut[1].each[1] # Nil

\* the timing constraint on a consecutive pair, by dt = current - previous
TimingViolation(dv, previous, current) ==
    LET dt == current.Timestamp.ms - previous.Timestamp.ms
    IN  \/ dt < 0
        \/ dt = 0 /\ ~dv.AllowIdenticalTimestamps
        \/ dt > dv.MaxInterval

\* the mileage constraint on a consecutive pair, by dd = current - previous
MileageViolation(dv, previous, current) ==
    \/ LessThan(current.Distance, previous.Distance)
    \/ Equal(current.Distance, previous.Distance) /\ ~dv.AllowIdenticalMileage

IndividuallyValid(recs) ==
    \A i \in 1..Len(recs) :
        ~recs[i].Timestamp.zero /\ ~LessThan(recs[i].Distance, Zero)

\* the pairs (i, i + 1) of recs that break a timing or a mileage constraint
OffendingPairs(dv, recs) ==
    {i \in 1..(Len(recs) - 1) :
        TimingViolation(dv, recs[i], recs[i + 1]) \/ MileageViolation(dv, recs[i], recs[i + 1])}

FirstOffendingPair(dv, recs) ==
    CHOOSE i \in OffendingPairs(dv, recs) : \A j \in OffendingPairs(dv, recs) : i <= j

\* C15 as stated: in a sequence of two or more individually valid records,
\* every consecutive pair with dt < 0, with dt = 0 when identical timestamps
\* are not allowed, or with dt > MaxInterval makes ValidateSequence fail with
\* a timing-type error.
C15_TimingErrorEveryPair ==
    \A k \in 1..Len(seqOut) :
        LET recs == seqIn.records
        IN  (Len(recs) >= 2 /\ IndividuallyValid(recs)) =>
                \A i \in 1..(Len(recs) - 1) :
                    TimingViolation(seqIn.dv, recs[i], recs[i + 1])
                        => IsErrorOfType(seqOut[k].sequence, "timing")

\* C15 (amended): in a sequence of two or more individually valid records
\* ValidateSequence reports the first consecutive pair that breaks a timing
\* or mileage constraint: when that pair has dt < 0, dt = 0 with identical
\* timestamps not allowed, or dt > MaxInterval, the error is of timing type
\* and indexes the current record; every such pair makes ValidateSequence
\* fail, and a sequence without such a pair (dt = 0 under the default
\* configuration included) gets no timing error.
C15_FirstPairTiming ==
    \A k \in 1..Len(seqOut) :
        LET recs == seqIn.records
            dv == seqIn.dv
            out == seqOut[k]
            timingPairs == {i \in 1..(Len(recs) - 1) :
                               TimingViolation(dv, recs[i], recs[i + 1])}
        IN  (Len(recs) >= 2 /\ IndividuallyValid(recs)) =>
                /\ timingPairs # {} => out.sequence # Nil
                /\ timingPairs = {} => ~IsErrorOfType(out.sequence, "timing")
                /\ (OffendingPairs(dv, recs) # {}
                      /\ FirstOffendingPair(dv, recs) \in timingPairs)
                       => out.sequence =
                              ValidationError("timing", FirstOffendingPair(dv, recs),
                                              "timestamp")

C15_Witness ==
    /\ seqOut # <<>>
    /\ seqIn.dv = NewValidator
    /\ seqIn.records = <<DistanceRecord(TimeNoon, DistanceLow),
                         DistanceRecord(TimeNoon, DistanceLow),
                         DistanceRecord(TimeNoonPastInterval, DistanceHigh)>>
    /\ seqOut[1].sequence = ValidationError("timing", 2, "timestamp")

\* C16 as stated: every consecutive pair of individually valid records that
\* passes the timing check and has dd < 0, or dd = 0 when identical mileage
\* is not allowed, makes ValidateSequence fail with a mileage-type error.
C16_MileageErrorEveryPair ==
    \A k \in 1..Len(seqOut) :
        LET recs == seqIn.records
        IN  (Len(recs) >= 2 /\ IndividuallyValid(recs)) =>
                \A i \in 1..(Len(recs) - 1) :
                    (/\ ~TimingViolation(seqIn.dv, recs[i], recs[i + 1])
                     /\ MileageViolation(seqIn.dv, recs[i], recs[i + 1]))
                        => IsErrorOfType(seqOut[k].sequence, "mileage")

\* C16 (amended): in a sequence of two or more individually valid records
\* ValidateSequence reports the first consecutive pair that breaks a timing
\* or mileage constraint: when that pair passes the timing check and has
\* dd < 0, or dd = 0 with identical mileage not allowed, the error is of
\* mileage type and indexes the current record; every such pair makes
\* ValidateSequence fail, a sequence without one gets no mileage error (dd = 0
\* under the default configuration included), and an accepted sequence never
\* has a decreasing reading.
C16_FirstPairMileage ==
    \A k \in 1..Len(seqOut) :
        LET recs == seqIn.records
            dv == seqIn.dv
            out == seqOut[k]
            mileagePairs == {i \in 1..(Len(recs) - 1) :
                                MileageViolation(dv, recs[i], recs[i + 1])}
        IN  /\ (Len(recs) >= 2 /\ IndividuallyValid(recs)) =>
                   /\ mileagePairs # {} => out.sequence # Nil
                   /\ mileagePairs = {} => ~IsErrorOfType(out.sequence, "mileage")
                   /\ (OffendingPairs(dv, recs) # {}
                         /\ ~TimingViolation(dv, recs[FirstOffendingPair(dv, recs)],
                                             recs[FirstOffendingPair(dv, recs) + 1]))
                          => out.sequence =
                                 ValidationError("mileage", FirstOffendingPair(dv, recs),
                                                 "distance")
            /\ out.sequence = Nil =>
                   \A i \in 1..(Len(recs) - 1) :
                       ~LessThan(recs[i + 1].Distance, recs[i].Distance)

C16_Witness ==
    /\ seqOut # <<>>
    /\ seqIn.dv = NewValidator
    /\ seqIn.records = <<DistanceRecord(TimeNoon, DistanceHigh),
                         DistanceRecord(TimeNoon, DistanceLow)>>
    /\ seqOut[1].sequence = ValidationError("mileage", 1, "distance")

\* C17: ValidateRecord looks at the one record: a format-type error when the
\* timestamp is the zero time, otherwise a constraint-type error when the
\* distance is negative, otherwise success.
C17_RecordChecks ==
    \A k \in 1..Len(seqOut) :
        \A i \in 1..Len(seqIn.records) :
            LET r == seqIn.records[i]
                err == seqOut[k].each[i]
            IN  IF r.Timestamp = ZeroTime THEN IsErrorOfType(err, "format")
                ELSE IF LessThan(r.Distance, Zero) THEN IsErrorOfType(err, "constraint")
                ELSE err = Nil

C17_Witness ==
    /\ seqOut # <<>>
    /\ seqIn.records = <<DistanceRecord(ZeroTime, DistanceNegative),
                         DistanceRecord(TimeNoon, DistanceNegative),
                         DistanceRecord(TimeNoon, DistanceLow)>>
    /\ IsErrorOfType(seqOut[1].each[1], "format")
    /\ IsErrorOfType(seqOut[1].each[2], "constraint")
    /\ seqOut[1].each[3] = Nil

IsBlank(line) == TrimSpace(line) = <<>>

\* C18: a line that is empty or all whitespace produces no outcome but still
\* advances the line counter: the i-th parse outcome emitted is that of the
\* i-th non-blank line and carries the 1-based position of that line in the
\* input, blank lines counted, whether the line is valid or not.
C18_BlankLinesKeepNumbers ==
    /\ lineNum <= Len(input)
    /\ \A i \in 1..Len(Emitted) :
           LET o == Emitted[i]
           IN  (~IsCancelOutcome(o) /\ ~IsIOOutcome(o)) =>
                   /\ o.Line \in 1..lineNum
                   /\ ~IsBlank(input[o.Line])
                   /\ Cardinality({k \in 1..o.Line : ~IsBlank(input[k])}) = i
                   /\ o.Error # Nil => o.Error.Line = o.Line

C18_Witness ==
    /\ input = <<LineA, LineBlank, LineBad>>
    /\ parserEnd = "eof"
    /\ Len(received) = 2
    /\ received[1].Line = 1
    /\ received[1].Error = Nil
    /\ received[2].Line = 3
    /\ received[2].Error = ParsingError("format", 3)
    /\ lineNum = 3

(***************************************************************************)
(* parseLine on sampled lines: a line is put together from what may stand  *)
(* before the timestamp, a timestamp, a separator, a distance and what may *)
(* follow; one step parses it.                                             *)
(***************************************************************************)
LeadSamples == {<<>>, <<" ">>, <<"x">>}

TimestampSamples ==
    {TsNoon,
     <<"2", "5", ":", "0", "0", ":", "0", "0", ".", "0", "0", "0">>,
     <<"1", "2", ":", "6", "0", ":", "0", "0", ".", "0", "0", "0">>,
     <<"1", "2", ":", "0", "0", ":", "6", "0", ".", "0", "0", "0">>,
     <<"1", "2", ":", "0", "0", ":", "0", "0", ".", "0", "0">>,
     <<"1", "2", "-", "0", "0", ":", "0", "0", ".", "0", "0", "0">>}

SeparatorSamples == {<<" ">>, <<" ", " ">>, <<"\t">>}

DistanceStringSamples ==
    {<<"1", "2", "3", "4", "5", "6", "7", "8", ".", "0">>,
     <<"1", "2", "3", "4", "5", "6", "7", "8", ".", "0", "5">>,
     <<"1", "2", "3", "4", "5", "6", "7", ".", "0">>,
     <<"1", "2", "3", "4", "5", "6", "7", "8">>,
     <<"1", "2", "3", "4", "5", "6", "7", "8", ".">>,
     <<"1", "2", "3", "4", "5", "6", "7", "8", ".", "0", ".", "5">>,
     <<"-", "1", "2", "3", "4", "5", "6", "7", "8", ".", "0">>}

TrailSamples == {<<>>, <<" ">>, <<"x">>, <<" ", "x">>, <<"\r">>}

ParseLineSamples ==
    {a \o t \o b \o d \o c :
        a \in LeadSamples, t \in TimestampSamples, b \in SeparatorSamples,
        d \in DistanceStringSamples, c \in TrailSamples}
    \cup {<<>>, LineBlank, LineBad}

InitLine ==
    /\ lineIn \in [line : ParseLineSamples, lineNum : 1..MaxLines]
    /\ lineOut = <<>>
    /\ input = <<>>
    /\ readErr = FALSE
    /\ InitPipelineVars
    /\ InitFareVars
    /\ InitSeqVars
    /\ InitDistVars

LineCall ==
    /\ lineOut = <<>>
    /\ lineOut' = <<parseLine(lineIn.line, lineIn.lineNum)>>
    /\ UNCHANGED lineIn
    /\ UNCHANGED <<input, readErr, cancelled, cancelledMidInput>>
    /\ UNCHANGED parserVars
    /\ UNCHANGED runVars
    /\ UNCHANGED <<fareVars, seqVars, distVars>>

NextLine == LineCall

LineSpec == InitLine /\ [][NextLine]_vars

\* the whole line is TIMESTAMP, one space, DISTANCE and nothing else
ExactLine(line) ==
    /\ Len(line) >= 14
    /\ TimestampShape(SubSeq(line, 1, 12))
    /\ line[13] = " "
    /\ DistancePoint(SubSeq(line, 14, Len(line))) # 0

\* C19: parseLine accepts a line only when the whole line is exactly
\* TIMESTAMP, one ASCII space, DISTANCE: with more than one separating space,
\* or anything after the distance (trailing white space included) or before
\* the timestamp, the line is rejected with a format-type error.
C19_ExactLineOnly ==
    \A k \in 1..Len(lineOut) :
        ~ExactLine(lineIn.line) =>
            lineOut[k].Error = ParsingError("format", lineIn.lineNum)

\* the timestamp checks of parseLine, on the 12 characters of the timestamp
TimestampStructureFails(t) ==
    Len(t) # 12 \/ t[3] # ":" \/ t[6] # ":" \/ t[9] # "."

TimestampRangeFails(t) ==
    \/ DigitsToInt(SubSeq(t, 1, 2), 0) > 23
    \/ DigitsToInt(SubSeq(t, 4, 5), 0) > 59
    \/ DigitsToInt(SubSeq(t, 7, 8), 0) > 59

\* C20: parseLine reports the first failing check, in this order, with the
\* error kind stated and the line number set: (1) whole-line structure ->
\* format; (2) timestamp length and separators -> timestamp; (3) timestamp
\* hour, minute, second range -> timestamp; (4) distance pattern -> distance;
\* (5) distance parse and sign -> distance; with no failing check the record
\* is returned without an error.
C20_FirstFailingCheck ==
    \A k \in 1..Len(lineOut) :
        LET line == TrimSpace(lineIn.line)
            t == SubSeq(line, 1, 12)
            d == SubSeq(line, 14, Len(line))
            err == lineOut[k].Error
        IN  IF ~ExactLine(line) THEN err = ParsingError("format", lineIn.lineNum)
            ELSE IF TimestampStructureFails(t)
                 THEN err = ParsingError("timestamp", lineIn.lineNum)
            ELSE IF TimestampRangeFails(t)
                 THEN err = ParsingError("timestamp", lineIn.lineNum)
            ELSE IF DistancePoint(d) = 0 \/ d[1] = "-"
                 THEN err = ParsingError("distance", lineIn.lineNum)
            ELSE /\ err = Nil
                 /\ ~lineOut[k].Record.Timestamp.zero
                 /\ ~LessThan(lineOut[k].Record.Distance, Zero)

C20_Witness ==
    /\ lineOut # <<>>
    /\ lineIn.line = <<"2", "5", ":", "0", "0", ":", "0", "0", ".", "0", "0", "0">>
                          \o <<" ">> \o <<"1", "2", "3", "4", "5", "6", "7", "8", ".", "0">>
    /\ lineIn.lineNum = 2
    /\ lineOut[1].Error = ParsingError("timestamp", 2)

(***************************************************************************)
(* parseDistance on sampled literals: one step parses the literal and      *)
(* converts the value back to text, as TestDecimalPrecision does.          *)
(***************************************************************************)
\* the longest fraction whose digits are enumerated
MaxLiteralFrac == 3

IntegerPartSamples ==
    {<<"1", "2", "3", "4", "5", "6", "7", "8">>,
     <<"0", "1", "2", "3", "4", "5", "6", "7">>,
     <<"0", "0", "0", "0", "0", "0", "0", "0">>,
     <<"1", "2", "3", "4", "5", "6", "7", "8", "9">>}

\* the fraction of the literal of the test, and fractions of 18 digits
LongFractionSamples ==
    {<<"1", "2", "3", "4", "5", "6", "7", "8", "9", "0", "1", "2", "3", "4", "5">>,
     <<"1", "2", "3", "4", "5", "6", "7", "8", "9", "0", "1", "2", "3", "4", "5", "6", "7", "8">>,
     <<"1", "2", "3", "4", "5", "6", "7", "8", "9", "0", "1", "2", "3", "4", "5", "6", "7", "0">>}

FractionSamples ==
    (SeqsUpTo({"0", "5"}, MaxLiteralFrac) \ {<<>>}) \cup LongFractionSamples

LiteralSamples ==
    {i \o <<".">> \o f : i \in IntegerPartSamples, f \in FractionSamples}
    \cup {<<>>,
          <<"1", "2", "3", "4", "5", "6", "7", ".", "0">>,
          <<"1", "2", "3", "4", "5", "6", "7", "8">>,
          <<"1", "2", "3", "4", "5", "6", "7", "8", ".">>,
          <<"-", "1", "2", "3", "4", "5", "6", "7", "8", ".", "0">>}

InitDist ==
    /\ distIn \in LiteralSamples
    /\ distOut = <<>>
    /\ input = <<>>
    /\ readErr = FALSE
    /\ InitPipelineVars
    /\ InitFareVars
    /\ InitSeqVars
    /\ InitLineVars

DistCall ==
    /\ distOut = <<>>
    /\ distOut' = <<LET parsed == parseDistance(distIn)
                    IN  [result |-> parsed.Distance,
                         err |-> parsed.Error,
                         resultStr |-> String(parsed.Distance)]>>
    /\ UNCHANGED distIn
    /\ UNCHANGED <<input, readErr, cancelled, cancelledMidInput>>
    /\ UNCHANGED parserVars
    /\ UNCHANGED runVars
    /\ UNCHANGED <<fareVars, seqVars, lineVars>>

NextDist == DistCall

DistSpec == InitDist /\ [][NextDist]_vars

\* C21: for every syntactically valid distance literal (8 or more integer
\* digits, leading zeros allowed, a point, one or more fraction digits),
\* parsing it and converting the value back to text gives the literal back.
C21_RoundTrip ==
    \A k \in 1..Len(distOut) :
        DistancePoint(distIn) # 0 =>
            /\ distOut[k].err = Nil
            /\ distOut[k].resultStr = distIn

InitCancelled ==
    /\ input \in Inputs
    /\ readErr \in BOOLEAN
    /\ cancelled = TRUE
    /\ cancelledMidInput = FALSE
    /\ lineNum = 0
    /\ ppc = "scan"
    /\ pending = NoResult
    /\ chan = <<>>
    /\ closed = FALSE
    /\ parserEnd = "running"
    /\ rpc = "select"
    /\ records = <<>>
    /\ processingErrors = <<>>
    /\ received = <<>>
    /\ completed = FALSE
    /\ runErr = Nil
    /\ calculation = NoCalculation
    /\ output = <<>>
    /\ InitFareVars
    /\ InitSeqVars
    /\ InitLineVars
    /\ InitDistVars

NextCancelled ==
    \/ Scan
    \/ CheckLine
    \/ SendCancelled
    \/ SendIOError
    \/ IOErrorAbandoned
    \/ RunCancelled
    \/ RunReceive
    \/ ProcessComplete

CancelledSpec == InitCancelled /\ [][NextCancelled]_vars

\* C23: when the context is cancelled before Run is called, Run ends with
\* context.Canceled, for every input and every interleaving of the parser
\* goroutine with the select of the consumer.
C23_CancelledBeforeRun == RunEnded => runErr = ContextCanceled

\* C24: on a sequence of two or more records ValidateSequence checks every
\* record on its own before any pair: when some record has a zero timestamp
\* or a negative distance, the error is the record-level error of the lowest
\* such index, with RecordIndex set to that index, even when an earlier
\* consecutive pair breaks a timing or mileage rule.
C24_RecordsBeforePairs ==
    \A k \in 1..Len(seqOut) :
        LET recs == seqIn.records
            out == seqOut[k]
            bad == {i \in 1..Len(recs) :
                       recs[i].Timestamp.zero \/ LessThan(recs[i].Distance, Zero)}
            lowest == CHOOSE i \in bad : \A j \in bad : i <= j
        IN  (Len(recs) >= 2 /\ bad # {}) =>
                out.sequence =
                    IF recs[lowest].Timestamp.zero
                    THEN ValidationError("format", lowest - 1, "timestamp")
                    ELSE ValidationError("constraint", lowest - 1, "distance")

C24_Witness ==
    /\ seqOut # <<>>
    /\ seqIn.records = <<DistanceRecord(TimeNoonPastInterval, DistanceHigh),
                         DistanceRecord(TimeNoon, DistanceLow),
                         DistanceRecord(TimeNoon, DistanceNegative)>>
    /\ seqOut[1].sequence = ValidationError("constraint", 2, "distance")

\* C25: when every record is valid on its own and some consecutive pair
\* breaks a rule, ValidateSequence returns the error of the first such pair
\* in sequence order, timing before mileage within the pair, and RecordIndex
\* is the index of the current (second) record of the pair, never that of
\* the previous one.
C25_FirstPairCurrentIndex ==
    \A k \in 1..Len(seqOut) :
        LET recs == seqIn.records
            dv == seqIn.dv
            out == seqOut[k]
            first == FirstOffendingPair(dv, recs)
        IN  (Len(recs) >= 2 /\ IndividuallyValid(recs) /\ OffendingPairs(dv, recs) # {}) =>
                /\ out.sequence # Nil
                /\ out.sequence.Type =
                       IF TimingViolation(dv, recs[first], recs[first + 1])
                       THEN "timing" ELSE "mileage"
                \* recs[first + 1] is the current record, at 0-based index first
                /\ out.sequence.RecordIndex = first
                /\ out.sequence.RecordIndex # first - 1

C25_Witness ==
    /\ seqOut # <<>>
    /\ seqIn.dv = NewValidator
    /\ seqIn.records = <<DistanceRecord(TimeNoon, DistanceLow),
                         DistanceRecord(TimeNoonPlusInterval, DistanceLow),
                         DistanceRecord(TimeNoon, DistanceLow)>>
    /\ seqOut[1].sequence = ValidationError("timing", 2, "timestamp")

\* C26: in every sequence ValidateSequence accepts, under any configuration,
\* the distances never decrease, so the largest minus the smallest is the
\* last minus the first: CalculateFromRecords gives the fare of the distance
\* last minus first, the distance CompactFormatter.FormatRecords prints.
C26_ValidatedFirstToLast ==
    \A k \in 1..Len(seqOut) :
        LET recs == seqIn.records
            out == seqOut[k]
        IN  out.sequence = Nil =>
                /\ Len(recs) >= 1
                /\ \A i \in 1..(Len(recs) - 1) :
                       LessThanOrEqual(recs[i].Distance, recs[i + 1].Distance)
                /\ Sub(LargestOf(Distances(recs)), SmallestOf(Distances(recs)))
                       = Sub(recs[Len(recs)].Distance, recs[1].Distance)
                /\ out.calculation =
                       FromBreakdown(CalculateFare(Sub(recs[Len(recs)].Distance,
                                                       recs[1].Distance)))

C26_Witness ==
    /\ seqOut # <<>>
    /\ seqIn.records = <<DistanceRecord(TimeNoon, DistanceLow),
                         DistanceRecord(TimeNoon, DistanceLow),
                         DistanceRecord(TimeNoonPlusInterval, DistanceHigh)>>
    /\ seqOut[1].sequence = Nil
    /\ seqOut[1].calculation.TotalFare = NewFromInt(440)

\* C30: the maximum gap is inclusive: a consecutive pair whose time
\* difference is exactly MaxInterval (5 minutes by default) passes the timing
\* check of ValidateSequence, and one millisecond more is rejected with a
\* timing-type error.
C30_InclusiveMaxInterval ==
    \A k \in 1..Len(seqOut) :
        LET recs == seqIn.records
            dv == seqIn.dv
            out == seqOut[k]
            dt(i) == recs[i + 1].Timestamp.ms - recs[i].Timestamp.ms
        IN  (Len(recs) >= 2 /\ IndividuallyValid(recs)) =>
                /\ dv.MaxInterval = 5 * 60 * 1000
                /\ \A i \in 1..(Len(recs) - 1) :
                       /\ (dt(i) = dv.MaxInterval + 1
                             /\ \A j \in 1..(i - 1) : j \notin OffendingPairs(dv, recs))
                              => out.sequence = ValidationError("timing", i, "timestamp")
                       /\ (dt(i) = dv.MaxInterval
                             /\ \A j \in 1..(Len(recs) - 1) :
                                    j # i => j \notin OffendingPairs(dv, recs))
                              => /\ ~IsErrorOfType(out.sequence, "timing")
                                 /\ ~MileageViolation(dv, recs[i], recs[i + 1])
                                        => out.sequence = Nil

C30_Witness ==
    /\ seqOut # <<>>
    /\ seqIn.records = <<DistanceRecord(TimeNoon, DistanceLow),
                         DistanceRecord(TimeNoonPlusInterval, DistanceHigh)>>
    /\ seqOut[1].sequence = Nil

(***************************************************************************)
(* The pipeline on short inputs, for what happens around the cancellation  *)
(* signal.                                                                 *)
(***************************************************************************)
\* the longest input of the runs followed around the signal
MaxStreamLines == 2

InitStream ==
    /\ input \in SeqsUpTo(LineSamples, MaxStreamLines)
    /\ readErr \in BOOLEAN
    /\ InitPipelineVars
    /\ InitFareVars
    /\ InitSeqVars
    /\ InitLineVars
    /\ InitDistVars

StreamSpec == InitStream /\ [][Next]_vars

\* the outcomes of parsed lines among outcomes: neither the cancellation
\* outcome nor the IO error
LineOutcomeCount(outcomes) ==
    Cardinality({k \in 1..Len(outcomes) :
                    ~IsCancelOutcome(outcomes[k]) /\ ~IsIOOutcome(outcomes[k])})

CancelOutcomeLast ==
    \A k \in 1..Len(Emitted) : IsCancelOutcome(Emitted[k]) => k = Len(Emitted)

ClosedOnce ==
    /\ closed => (closed' /\ Emitted' = Emitted)
    /\ (~closed /\ closed') => (parserEnd = "running" /\ parserEnd' # "running")
    /\ parserEnd # "running" => parserEnd' = parserEnd
    /\ (Len(Emitted) > 0 /\ IsCancelOutcome(Emitted[Len(Emitted)])) => Emitted' = Emitted

InitQuiet ==
    /\ input \in SeqsUpTo(LineSamples, MaxStreamLines)
                   \cup {[i \in 1..n |-> LineA] :
                            n \in (ChanCap + 1)..(ChanCap + MaxOverflow)}
    /\ readErr = FALSE
    /\ InitPipelineVars
    /\ InitFareVars
    /\ InitSeqVars
    /\ InitLineVars
    /\ InitDistVars

ParserQuiet ==
    \/ Scan
    \/ CheckLine
    \/ SendResult

RunQuiet ==
    \/ RunReceive
    \/ ProcessComplete

NextQuiet ==
    \/ ParserQuiet
    \/ RunQuiet

QuietSpec ==
    InitQuiet /\ [][NextQuiet]_vars /\ WF_vars(ParserQuiet) /\ WF_vars(RunQuiet)

\* C28: without cancellation and without a read error, on any finite input
\* and with a consumer that keeps reading, the parser goroutine eventually
\* reaches the end of the input and closes the channel, never holding more
\* than 10 undelivered outcomes; the consumer then has received exactly one
\* outcome per non-blank line, and Run terminates.
C28_StreamCompletes ==
    /\ <>(closed /\ parserEnd = "eof" /\ lineNum = Len(input))
    /\ [](Len(chan) <= 10)
    /\ <>(RunEnded /\ completed)
    /\ [](RunEnded => (/\ closed
                       /\ chan = <<>>
                       /\ received = LineOutcomes(input)
                       /\ \A k \in 1..Len(received) :
                              ~IsBlank(input[received[k].Line])
                       /\ Len(received) =
                              Cardinality({i \in 1..Len(input) : ~IsBlank(input[i])})))

C28_Witness ==
    /\ RunEnded
    /\ ~cancelled
    /\ Len(input) = ChanCap + 1
    /\ Len(received) = ChanCap + 1
    /\ closed

\* C29: every TotalFare CalculateFare returns is 0 or 400 + 40 * k for a
\* natural number k: never negative, never strictly between 0 and 400, and
\* always an integer, for integer and fractional distances alike.
C29_FareLattice ==
    \A i \in 1..Len(fareOut) :
        LET total == fareOut[i].TotalFare
        IN  /\ ~IsNegative(total)
            /\ FracIsZero(total.frac)
            /\ \/ total.int = 0
               \/ \E k \in 0..((total.int - 400) \div 40) : total.int = 400 + 40 * k

C29_Witness ==
    /\ fareOut # <<>>
    /\ fareIn[1] = Dec(FALSE, 1000, <<5>>)
    /\ fareIn[2] = NewFromInt(12000)
    /\ fareOut[1].TotalFare = NewFromInt(440)
    /\ fareOut[2].TotalFare = NewFromInt(1560)

====
